---- MODULE Spec2Model ----
(***************************************************************************)
(* The caching core of pijuwebui (src/main.py): the Cache class with its   *)
(* four ensure operations, the album and artist normalisers, and the two   *)
(* sort orders.  Text (artist names, titles) is a sequence of Unicode code *)
(* points, so that lower(), upper(), unidecode() and string comparison are *)
(* computed and not assumed.  A resource link is the sequence of its       *)
(* '/'-separated segments ("/albums/7" is <<"", "albums", "7">>).          *)
(***************************************************************************)
EXTENDS Integers, Sequences, FiniteSets, TLC

(***************************************************************************)
(* Python values                                                           *)
(***************************************************************************)
\* Python's None, for an Optional value; a present value v is Some(v).
None == <<>>
Some(v) == <<v>>
IsNone(o) == o = <<>>
Get(o) == o[1]

\* A dict as a function; d[k] = v stored by Put.
EmptyDict == <<>>
Put(d, k, v) == [x \in (DOMAIN d) \cup {k} |-> IF x = k THEN v ELSE d[x]]
HasKey(d, k) == k \in DOMAIN d
\* A cache that never finds its key.
DictGetNeverCached(d, k) == None
\* dict.get(k): None when the key is absent.
DictGet(d, k) == IF k \in DOMAIN d THEN Some(d[k]) ELSE None

\* Concatenation of a sequence of sequences.
RECURSIVE Flatten(_)
Flatten(ss) == IF ss = <<>> THEN <<>> ELSE Head(ss) \o Flatten(Tail(ss))

(***************************************************************************)
(* Text: sequences of code points                                          *)
(***************************************************************************)
\* str.lower() on one code point (ASCII, Latin-1 and the IJ ligature).
LowerChar(c) ==
    IF c \in 65..90 THEN c + 32
    ELSE IF c \in (192..222) \ {215} THEN c + 32
    ELSE IF c = 306 THEN 307
    ELSE c

\* str.upper() on one code point; the result may be longer than one
\* character (sharp s) or leave Latin-1 (micro sign, y with diaeresis).
UpperChar(c) ==
    IF c \in 97..122 THEN <<c - 32>>
    ELSE IF c = 181 THEN <<924>>
    ELSE IF c = 223 THEN <<83, 83>>
    ELSE IF c \in (224..254) \ {247} THEN <<c - 32>>
    ELSE IF c = 255 THEN <<376>>
    ELSE IF c = 307 THEN <<306>>
    ELSE <<c>>

Lower(s) == [i \in 1..Len(s) |-> LowerChar(s[i])]
Upper(s) == Flatten([i \in 1..Len(s) |-> UpperChar(s[i])])

\* unidecode's transliteration of the non-ASCII code points used here:
\* E acute, e acute, sharp s, the IJ ligatures, the combining acute accent,
\* which has no ASCII rendering, and the upper case of y with diaeresis and
\* of the micro sign.
UnidecodeTable ==
    (201 :> <<69>>) @@ (233 :> <<101>>) @@ (223 :> <<115, 115>>) @@
    (306 :> <<73, 74>>) @@ (307 :> <<105, 106>>) @@ (769 :> <<>>) @@
    (376 :> <<89>>) @@ (924 :> <<77>>)
UnidecodeChar(c) == IF c < 128 THEN <<c>> ELSE UnidecodeTable[c]
Unidecode(s) == Flatten([i \in 1..Len(s) |-> UnidecodeChar(s[i])])

\* str.replace(ch, '') for a single character ch.
RemoveChar(s, ch) == SelectSeq(s, LAMBDA c : c # ch)

\* Python's < on str: by code point, a proper prefix being smaller.
RECURSIVE StrLess(_, _)
StrLess(a, b) ==
    IF b = <<>> THEN FALSE
    ELSE IF a = <<>> THEN TRUE
    ELSE IF Head(a) # Head(b) THEN Head(a) < Head(b)
    ELSE StrLess(Tail(a), Tail(b))

\* string.ascii_uppercase
ascii_uppercase == [i \in 1..26 |-> 64 + i]
\* Python's "x in s" for two str: x is a contiguous substring of s.
IsSubstring(x, s) ==
    \E i \in 0..(Len(s) - Len(x)) : \A j \in 1..Len(x) : s[i + j] = x[j]

\* list.sort(key=...): a stable sort.  lt is the set of index pairs <<i, j>>
\* with key(s[i]) < key(s[j]); an element lands after every element with a
\* smaller key and after the earlier elements with an equal key.
StableSort(s, lt) ==
    LET n == Len(s)
        pos(i) == 1 + Cardinality({j \in 1..n :
                        <<j, i>> \in lt \/ (j < i /\ <<i, j>> \notin lt)})
        RECURSIVE sorted(_)
        sorted(p) == IF p > n THEN <<>>
                     ELSE <<s[CHOOSE i \in 1..n : pos(i) = p]>> \o sorted(p + 1)
    IN sorted(1)

(***************************************************************************)
(* genre_view: the classifier's tables                                     *)
(***************************************************************************)
\* genre_view.UNCATEGORISED
UNCATEGORISED == "Uncategorised"
\* genre_view.GENRE_LOOKUP: upstream genre name -> its display genre.
GENRE_LOOKUP ==
    ("Rock" :> [displayed_name |-> "Pop and Rock"]) @@
    ("Pop" :> [displayed_name |-> "Pop and Rock"]) @@
    ("Jazz" :> [displayed_name |-> "Jazz"])
\* genre_view.GENRE_SORT_ORDER: display genre -> rank in the genre list.
GENRE_SORT_ORDER ==
    ("Jazz" :> 1) @@ ("Pop and Rock" :> 2) @@ ("Uncategorised" :> 3)
\* genre_view.GENRE_VIEWS: display genre -> the view shown for it.
GENRE_VIEWS == [dn \in DOMAIN GENRE_SORT_ORDER |-> [displayed_name |-> dn]]

\* sorted(display_names_set, key=GENRE_SORT_ORDER[dn]) of line 60.
SortedDisplayNames(names) ==
    LET n == Cardinality(names)
        rank(d) == 1 + Cardinality({e \in names :
                        GENRE_SORT_ORDER[e] < GENRE_SORT_ORDER[d]})
    IN [p \in 1..n |-> CHOOSE d \in names : rank(d) = p]

(***************************************************************************)
(* Normalisation of upstream records                                       *)
(***************************************************************************)
\* id_from_link: the text after the last '/'.  A link with no '/' at all
\* (a single segment) makes rindex raise ValueError.
LinkHasSeparator(link) == Len(link) >= 2
id_from_link(link) == link[Len(link)]

\* Python truthiness of an Optional str / Optional int / link.
TruthyStr(o) == o # None /\ Get(o) # <<>>
TruthyInt(o) == o # None /\ Get(o) # 0
TruthyLink(link) == link # <<"">>

\* The sentinels of the three sort keys.
MISSING_DISK == 9999
MISSING_TRACK == 0
MISSING_YEAR_IN_GENRE == 0
MISSING_YEAR_OF_ARTIST == 9999
\* "Unknown Artist" and "ZZZZZZZZZZZ"
UNKNOWN_ARTIST == <<85, 110, 107, 110, 111, 119, 110, 32, 65, 114, 116, 105, 115, 116>>
MISSING_TITLE == [i \in 1..11 |-> 90]
\* 'U' and 'num'
ANCHOR_UNKNOWN == <<85>>
ANCHOR_NUM == <<110, 117, 109>>

\* Lines 123-127: the anchor of an album from its artist.
Anchor(artist) ==
    LET first == IF TruthyStr(artist) THEN Upper(<<Get(artist)[1]>>)
                 ELSE ANCHOR_UNKNOWN
        plain == Unidecode(first)
    IN IF IsSubstring(plain, ascii_uppercase) THEN plain ELSE ANCHOR_NUM

\* Line 133: the sort key of a track, a pair of integers.
TrackSortKey(t) ==
    <<IF t.disknumber # None THEN Get(t.disknumber) ELSE MISSING_DISK,
      IF t.tracknumber # None THEN Get(t.tracknumber) ELSE MISSING_TRACK>>
\* Python's < on two pairs of integers.
PairLess(a, b) == a[1] < b[1] \/ (a[1] = b[1] /\ a[2] < b[2])

\* Lines 128-134: the tracks of an album, normalised and sorted.
Tracks(tracks_json) ==
    LET tracks == [i \in 1..Len(tracks_json) |->
                      [id |-> id_from_link(tracks_json[i].link),
                       title |-> tracks_json[i].title,
                       disknumber |-> tracks_json[i].disknumber,
                       tracknumber |-> tracks_json[i].tracknumber]]
        lt == {p \in (1..Len(tracks)) \X (1..Len(tracks)) :
                  PairLess(TrackSortKey(tracks[p[1]]), TrackSortKey(tracks[p[2]]))}
    IN StableSort(tracks, lt)

\* The exception add_album_from_json raises on album_json, "" when none:
\* ValueError from id_from_link (lines 120, 128), KeyError from the lookup of
\* the first genre link (line 122).
AlbumError(album_json, names_from_links) ==
    IF ~LinkHasSeparator(album_json.link) THEN "ValueError"
    ELSE IF /\ album_json.genres # <<>>
            /\ TruthyLink(album_json.genres[1])
            /\ album_json.genres[1] \notin DOMAIN names_from_links
         THEN "KeyError"
    ELSE IF \E i \in 1..Len(album_json.tracks) :
                ~LinkHasSeparator(album_json.tracks[i].link)
         THEN "ValueError"
    ELSE ""

\* Lines 120-143: the Album built from album_json.
Album(album_json, names_from_links) ==
    LET first_genre == IF album_json.genres # <<>>
                       THEN Some(album_json.genres[1]) ELSE None
    IN [id |-> id_from_link(album_json.link),
        artist |-> album_json.artist,
        title |-> album_json.title,
        year |-> album_json.releasedate,
        artwork_link |-> album_json.artwork.link,
        genre_name |-> IF first_genre # None /\ TruthyLink(Get(first_genre))
                       THEN Some(names_from_links[Get(first_genre)]) ELSE None,
        numberdisks |-> album_json.numberdisks,
        tracks |-> Tracks(album_json.tracks),
        anchor |-> Anchor(album_json.artist)]

\* The albums normalised in order, without the store of line 144.
RECURSIVE AddAlbumsUnstored(_, _, _, _)
AddAlbumsUnstored(albums_json, names_from_links, details, added) ==
    IF albums_json = <<>> THEN [details |-> details, albums |-> added, exc |-> ""]
    ELSE LET exc == AlbumError(Head(albums_json), names_from_links)
         IN IF exc # ""
            THEN [details |-> details, albums |-> added, exc |-> exc]
            ELSE AddAlbumsUnstored(Tail(albums_json), names_from_links, details,
                     Append(added, Album(Head(albums_json), names_from_links)))

\* add_album_from_json over a list of album_json, in order, as the loops of
\* lines 82-84 and 153-154 call it: the album-by-id table after the calls, the
\* albums returned, and the exception that stopped the loop ("" when none).
RECURSIVE AddAlbums(_, _, _, _)
AddAlbums(albums_json, names_from_links, details, added) ==
    IF albums_json = <<>> THEN [details |-> details, albums |-> added, exc |-> ""]
    ELSE LET exc == AlbumError(Head(albums_json), names_from_links)
         IN IF exc # ""
            THEN [details |-> details, albums |-> added, exc |-> exc]
            ELSE LET album == Album(Head(albums_json), names_from_links)
                 IN AddAlbums(Tail(albums_json), names_from_links,
                              Put(details, album.id, album), Append(added, album))

\* Lines 86-94: get_album_sort_order, a triple (str, int, str).
get_album_sort_order(album) ==
    LET artist == IF TruthyStr(album.artist) THEN Get(album.artist) ELSE UNKNOWN_ARTIST
        title == IF TruthyStr(album.title) THEN Get(album.title) ELSE MISSING_TITLE
    IN <<Lower(Unidecode(RemoveChar(artist, 34))),
         IF TruthyInt(album.year) THEN Get(album.year) ELSE MISSING_YEAR_IN_GENRE,
         Lower(Unidecode(title))>>
\* Python's < on two such triples.
AlbumKeyLess(a, b) ==
    \/ StrLess(a[1], b[1])
    \/ a[1] = b[1] /\ a[2] < b[2]
    \/ a[1] = b[1] /\ a[2] = b[2] /\ StrLess(a[3], b[3])

\* Lines 74, 84, 95: albums[album.id] = album on a dict, then its values():
\* a later album with an id already present replaces the earlier one in place.
RECURSIVE DedupById(_, _)
DedupById(albums, acc) ==
    IF albums = <<>> THEN acc
    ELSE LET a == Head(albums)
         IN DedupById(Tail(albums),
                IF \E i \in 1..Len(acc) : acc[i].id = a.id
                THEN [i \in 1..Len(acc) |-> IF acc[i].id = a.id THEN a ELSE acc[i]]
                ELSE Append(acc, a))

\* Line 96: list.sort computes the key of each element once.
RECURSIVE AlbumSortKeys(_)
AlbumSortKeys(albums) ==
    IF albums = <<>> THEN <<>>
    ELSE <<get_album_sort_order(Head(albums))>> \o AlbumSortKeys(Tail(albums))

\* Lines 95-96: the albums of a genre in their display order.
SortGenreAlbums(albums) ==
    LET sort_keys == AlbumSortKeys(albums)
        lt == {p \in (1..Len(albums)) \X (1..Len(albums)) :
                  AlbumKeyLess(sort_keys[p[1]], sort_keys[p[2]])}
    IN StableSort(albums, lt)

\* Line 155: the albums of an artist by year, a missing year last.
ArtistAlbumKey(album) ==
    IF TruthyInt(album.year) THEN Get(album.year) ELSE MISSING_YEAR_OF_ARTIST
SortArtistAlbums(albums) ==
    LET lt == {p \in (1..Len(albums)) \X (1..Len(albums)) :
                  ArtistAlbumKey(albums[p[1]]) < ArtistAlbumKey(albums[p[2]])}
    IN StableSort(albums, lt)

(***************************************************************************)
(* Bounds                                                                  *)
(***************************************************************************)
\* Concurrent request handlers (Flask serves each request on its own thread).
NumCallers == 2
\* Calls of the ensure operations in one run.
MaxCalls == 2
\* Non-200 answers the upstream gives for resources it has.
MaxFailures == 1
Callers == 1..NumCallers

(***************************************************************************)
(* The upstream server's data                                              *)
(***************************************************************************)
GenreLink(n) == <<"", "genres", n>>
TrackJson(id, disk, track) ==
    [link |-> <<"", "tracks", id>>, title |-> id,
     disknumber |-> disk, tracknumber |-> track]
AlbumJson(id, genres, artist, title, year, tracks) ==
    [link |-> <<"", "albums", id>>, genres |-> genres, artist |-> artist,
     title |-> title, releasedate |-> year,
     artwork |-> [link |-> <<"", "artwork", id>>],
     numberdisks |-> 1, tracks |-> tracks]

\* Artist names and titles, as code points.
Prince == <<80, 114, 105, 110, 99, 101>>
PRINCE == <<80, 82, 73, 78, 67, 69>>
Bob == <<66, 111, 98>>
bob == <<98, 111, 98>>
prince == <<112, 114, 105, 110, 99, 101>>
TitleX == <<88>>

TwoTracks == <<TrackJson("t2", Some(1), Some(2)), TrackJson("t1", Some(1), Some(1))>>
\* Track lists with a missing disk or track number, and with numbers at the
\* values the sort key uses for a missing one.
ThreeTracks ==
    <<TrackJson("t1", Some(1), Some(2)), TrackJson("t2", None, Some(1)),
      TrackJson("t3", Some(1), Some(1))>>
HighDiskTracks == <<TrackJson("t1", Some(10000), Some(1)), TrackJson("t2", None, Some(1))>>
TrackZeroTracks == <<TrackJson("t1", Some(1), Some(0)), TrackJson("t2", Some(1), None)>>

\* A small library: two upstream genres shown as one display genre, which
\* both list album 2.
SmallLibrary ==
    LET a1 == AlbumJson("1", <<GenreLink("1")>>, Some(Prince), Some(TitleX), Some(1984), TwoTracks)
        a2 == AlbumJson("2", <<GenreLink("2"), GenreLink("1")>>, Some(bob), Some(TitleX), Some(1990), <<>>)
    IN [genres |-> <<[link |-> GenreLink("1"), name |-> "Rock"],
                     [link |-> GenreLink("2"), name |-> "Pop"]>>,
        genre_albums |-> (GenreLink("1") :> <<a1, a2>>) @@ (GenreLink("2") :> <<a2>>),
        albums |-> ("1" :> a1) @@ ("2" :> a2),
        artists |-> (Prince :> <<[name |-> Prince, albums |-> <<a1>>]>>)]
SmallKeys ==
    [genre |-> {"Pop and Rock"}, album |-> {"1"}, artist |-> {Prince}]

\* More text: "Étienne", "3 Doors Down", "Ĳs", a name that starts with a
\* combining accent, a quoted "Bob", the titles "A", "B" and "{A".
Etienne == <<201, 116, 105, 101, 110, 110, 101>>
ThreeDoorsDown == <<51, 32, 68, 111, 111, 114, 115, 32, 68, 111, 119, 110>>
IJs == <<306, 115>>
AccentFirst == <<769, 97>>
QuotedBob == <<34, 66, 111, 98, 34>>
TitleA == <<65>>
TitleB == <<66>>
TitleBrace == <<123, 65>>

\* A library with three upstream genres (one of them unknown to the
\* classifier), albums that differ in artist, year and title, an album id
\* that is an alias ("01" is served as album 1), and an artist that upstream
\* finds under either capitalisation.
Library ==
    LET g1 == GenreLink("1")
        g2 == GenreLink("2")
        g3 == GenreLink("3")
        a1 == AlbumJson("1", <<g1>>, Some(Bob), Some(TitleA), Some(2000), TwoTracks)
        a2 == AlbumJson("2", <<g2, g1>>, Some(bob), Some(TitleB), Some(1990), ThreeTracks)
        a3 == AlbumJson("3", <<g1>>, None, Some(TitleX), Some(1995), HighDiskTracks)
        a4 == AlbumJson("4", <<g1>>, Some(QuotedBob), None, Some(2000), TrackZeroTracks)
        a5 == AlbumJson("5", <<g1>>, Some(Bob), Some(TitleBrace), Some(2000), <<>>)
        a6 == AlbumJson("6", <<g3>>, Some(Etienne), Some(TitleA), None, <<>>)
        a7 == AlbumJson("7", <<g3>>, Some(ThreeDoorsDown), Some(TitleA), Some(2002), <<>>)
        a8 == AlbumJson("8", <<>>, Some(<<>>), Some(<<>>), Some(0), <<>>)
        a9 == AlbumJson("9", <<g3>>, Some(IJs), Some(TitleA), Some(1999), <<>>)
        a10 == AlbumJson("10", <<g3>>, Some(AccentFirst), Some(TitleA), Some(1999), <<>>)
        p1 == AlbumJson("11", <<g2>>, Some(Prince), Some(TitleA), Some(1984), TwoTracks)
        p2 == AlbumJson("12", <<g2>>, Some(PRINCE), Some(TitleB), None, <<>>)
        princes == <<[name |-> PRINCE, albums |-> <<p2>>],
                    [name |-> Prince, albums |-> <<p1>>]>>
    IN [genres |-> <<[link |-> g3, name |-> "Skiffle"],
                     [link |-> g1, name |-> "Rock"],
                     [link |-> g2, name |-> "Pop"]>>,
        genre_albums |-> (g1 :> <<a1, a3, a4, a5>>) @@ (g2 :> <<a2, a1, p1, p2>>) @@
                         (g3 :> <<a6, a7, a8, a9, a10>>),
        albums |-> ("1" :> a1) @@ ("01" :> a1) @@ ("2" :> a2) @@ ("3" :> a3) @@
                   ("4" :> a4) @@ ("5" :> a5) @@ ("6" :> a6) @@ ("7" :> a7) @@
                   ("8" :> a8) @@ ("9" :> a9) @@ ("10" :> a10) @@ ("11" :> p1) @@
                   ("12" :> p2),
        artists |-> (Prince :> princes) @@ (PRINCE :> princes) @@
                    (prince :> princes)]
LibraryKeys ==
    [genre |-> {"Pop and Rock", "Uncategorised", "NoSuchGenre"},
     album |-> {"1", "01", "404"},
     artist |-> {Prince, PRINCE, prince}]

\* More names: "SS", the sharp s, and an artist upstream has no album of.
CapitalSS == <<83, 83>>
SharpS == <<223>>
Nobody == <<78, 111>>

\* A library of artists' albums.  Upstream finds the albums of Prince under
\* two capitalisations, with years that are missing, 0 and ordinary; it
\* compares names by case folding, so that it answers "SS" with the albums
\* of the artist it has as sharp s; and it answers with an empty mapping for
\* an artist it has no album of.
ArtistLibrary ==
    LET g1 == GenreLink("1")
        g2 == GenreLink("2")
        q1 == AlbumJson("21", <<g2>>, Some(Prince), Some(TitleA), Some(1984), TwoTracks)
        q2 == AlbumJson("22", <<g2>>, Some(PRINCE), Some(TitleB), None, <<>>)
        q3 == AlbumJson("23", <<g1>>, Some(Prince), Some(TitleX), Some(1979), <<>>)
        q4 == AlbumJson("24", <<g2>>, Some(PRINCE), Some(TitleX), Some(0), <<>>)
        q5 == AlbumJson("25", <<g1>>, Some(SharpS), Some(TitleA), Some(2001), <<>>)
    IN [genres |-> <<[link |-> g1, name |-> "Rock"],
                     [link |-> g2, name |-> "Pop"]>>,
        genre_albums |-> (g1 :> <<q3, q5>>) @@ (g2 :> <<q1, q2, q4>>),
        albums |-> ("21" :> q1) @@ ("22" :> q2) @@ ("23" :> q3) @@ ("24" :> q4) @@
                   ("25" :> q5),
        artists |-> (Prince :> <<[name |-> PRINCE, albums |-> <<q2, q4>>],
                                 [name |-> Prince, albums |-> <<q1, q3>>]>>) @@
                    (CapitalSS :> <<[name |-> SharpS, albums |-> <<q5>>]>>) @@
                    (Nobody :> <<>>)]
ArtistKeys ==
    [genre |-> {"Pop and Rock"}, album |-> {"21"},
     artist |-> {Prince, CapitalSS, Nobody}]

(***************************************************************************)
(* State                                                                   *)
(***************************************************************************)
VARIABLES
    display_genres,          \* Cache.display_genres: None until the index is built
    display_names,           \* Cache.display_names
    genre_dicts,             \* the dicts made at line 45 (display genre -> links);
                             \* Cache.genre_links is the last one
    genre_names_from_links,  \* Cache.genre_names_from_links: link -> display genre
    albums_in_genre,         \* Cache.albums_in_genre: display genre -> list of Album
    album_details,           \* Cache.album_details: album id -> Album
    artist_details,          \* Cache.artist_details: lower-cased name -> Artist
    library,                 \* which upstream the application is run against
    requests,                \* upstream requests sent, per resource
    served,                  \* upstream requests answered 200, per resource
    failures,                \* non-200 answers given for resources upstream has
    ncalls,                  \* calls started
    pc,                      \* per caller: where it is in its operation
    call,                    \* per caller: the operation and its key
    local,                   \* per caller: the local variables of the operation
    result                   \* per caller: how its last operation ended

tables == <<display_genres, display_names, genre_dicts, genre_names_from_links,
            albums_in_genre, album_details, artist_details>>
upstream == <<requests, served, failures>>
vars == <<display_genres, display_names, genre_dicts, genre_names_from_links,
          albums_in_genre, album_details, artist_details, library,
          requests, served, failures, ncalls, pc, call, local, result>>

\* Cache.genre_links: None until line 45 has run, then the dict it made last.
\* A dict it made before stays with the callers that hold it or a list of it.
genre_links ==
    IF genre_dicts = <<>> THEN None ELSE Some(genre_dicts[Len(genre_dicts)])

\* What the upstream serves, and the keys the callers ask for.
server ==
    CASE library = "small" -> SmallLibrary
      [] library = "artists" -> ArtistLibrary
      [] OTHER -> Library
keys ==
    CASE library = "small" -> SmallKeys
      [] library = "artists" -> ArtistKeys
      [] OTHER -> LibraryKeys

\* How an operation ends: a returned value (None included), abort(code), or
\* an exception that is not caught.
\* sent counts the upstream requests the operation issued for its own key.
Pending == [kind |-> "pending", code |-> 0, exc |-> "", value |-> None, sent |-> 0]
Return(v) == [kind |-> "return", code |-> 0, exc |-> "", value |-> Some(v), sent |-> 0]
ReturnNone == [kind |-> "return", code |-> 0, exc |-> "", value |-> None, sent |-> 0]
Abort(code) == [kind |-> "abort", code |-> code, exc |-> "", value |-> None, sent |-> 0]
Raise(exc) == [kind |-> "raise", code |-> 0, exc |-> exc, value |-> None, sent |-> 0]

\* The status the route handler (root, get_genre, get_album, get_artist)
\* answers with: abort(404) on a returned None, the abort code, 500 on an
\* uncaught exception.
HandlerStatus(r) ==
    IF r.kind = "abort" THEN r.code
    ELSE IF r.kind = "raise" THEN 500
    ELSE IF r.value = None THEN 404
    ELSE 200

NoCall == [op |-> "none", genre |-> "", album |-> "", artist |-> <<>>]
\* The locals of an operation, with two observations of the call: sent, the
\* upstream requests issued for its own key, and before, what the album,
\* genre-contents and artist tables held when it was entered.
NoLocal == [status |-> 0, body |-> <<>>, i |-> 0, j |-> 0, names |-> {},
            links |-> <<>>, dict |-> 0, albums |-> <<>>, sent |-> 0,
            before |-> <<>>]

Count(d, k) == IF HasKey(d, k) THEN d[k] ELSE 0
Inc(d, k) == Put(d, k, Count(d, k) + 1)
NoRequests == [genres |-> 0, genre |-> EmptyDict, album |-> EmptyDict,
               artist |-> EmptyDict]

\* Cache.__init__, with nothing requested yet.
InitWith(lib) ==
    /\ display_genres = None
    /\ display_names = None
    /\ genre_dicts = <<>>
    /\ genre_names_from_links = EmptyDict
    /\ albums_in_genre = EmptyDict
    /\ album_details = EmptyDict
    /\ artist_details = EmptyDict
    /\ library = lib
    /\ requests = NoRequests
    /\ served = NoRequests
    /\ failures = 0
    /\ ncalls = 0
    /\ pc = [c \in Callers |-> "idle"]
    /\ call = [c \in Callers |-> NoCall]
    /\ local = [c \in Callers |-> NoLocal]
    /\ result = [c \in Callers |-> Pending]

Init == InitWith("small")
InitSeq == InitWith("full")
InitArtists == InitWith("artists")

\* The statuses upstream may answer with: 404 for what it does not have,
\* otherwise 200 or, a bounded number of times, a failure.
Statuses(exists) ==
    IF ~exists THEN {404}
    ELSE IF failures < MaxFailures THEN {200, 500} ELSE {200}
Failed(exists, status) == IF exists /\ status # 200 THEN failures + 1 ELSE failures

\* The caller ends its operation.
Finish(c, r) ==
    /\ pc' = [pc EXCEPT ![c] = "done"]
    /\ result' = [result EXCEPT ![c] = [r EXCEPT !.sent = local[c].sent]]
    /\ local' = [local EXCEPT ![c] = NoLocal]
Goto(c, label) == pc' = [pc EXCEPT ![c] = label]

(***************************************************************************)
(* The route handlers call the cache                                       *)
(***************************************************************************)
Start(c, what) ==
    /\ pc[c] \in {"idle", "done"}
    /\ ncalls < MaxCalls
    /\ ncalls' = ncalls + 1
    /\ call' = [call EXCEPT ![c] = what]
    /\ result' = [result EXCEPT ![c] = Pending]
    /\ local' = [local EXCEPT ![c] =
                    [NoLocal EXCEPT !.before = <<albums_in_genre, album_details,
                                                 artist_details>>]]
    /\ Goto(c, "gc_check")
    /\ UNCHANGED <<tables, library, upstream>>

\* root()
CallRoot(c) == Start(c, [NoCall EXCEPT !.op = "genres"])
\* get_genre(genre_name)
CallGenre(c) ==
    \E g \in keys.genre : Start(c, [NoCall EXCEPT !.op = "genre", !.genre = g])
\* get_album(album_id)
CallAlbum(c) ==
    \E id \in keys.album : Start(c, [NoCall EXCEPT !.op = "album", !.album = id])
\* get_artist(artist)
CallArtist(c) ==
    \E n \in keys.artist : Start(c, [NoCall EXCEPT !.op = "artist", !.artist = n])

(***************************************************************************)
(* ensure_genre_cache                                                      *)
(***************************************************************************)
\* Where the caller of ensure_genre_cache goes on.
AfterGenreCache(c) ==
    CASE call[c].op = "genres" -> "root_return"
      [] call[c].op = "genre" -> "gcc_check"
      [] call[c].op = "album" -> "alb_check"
      [] call[c].op = "artist" -> "art_check"

\* The test of display_genres made for root and get_genre only.
GcCheckForGenresOnly(c) ==
    /\ pc[c] = "gc_check"
    /\ Goto(c, IF display_genres = None /\ call[c].op \in {"genres", "genre"}
               THEN "gc_request" ELSE AfterGenreCache(c))
    /\ UNCHANGED <<tables, library, upstream, ncalls, call, local, result>>

\* Line 40: the test of display_genres.
GcCheck(c) ==
    /\ pc[c] = "gc_check"
    /\ Goto(c, IF display_genres = None THEN "gc_request" ELSE AfterGenreCache(c))
    /\ UNCHANGED <<tables, library, upstream, ncalls, call, local, result>>

\* Line 41: GET /genres.
GcRequest(c) ==
    /\ pc[c] = "gc_request"
    /\ \E status \in Statuses(TRUE) :
        /\ local' = [local EXCEPT ![c].status = status,
                                  ![c].body = IF status = 200 THEN server.genres ELSE <<>>,
                                  ![c].sent = IF call[c].op = "genres" THEN @ + 1 ELSE @]
        /\ requests' = [requests EXCEPT !.genres = @ + 1]
        /\ served' = [served EXCEPT !.genres = IF status = 200 THEN @ + 1 ELSE @]
        /\ failures' = Failed(TRUE, status)
    /\ Goto(c, "gc_init")
    /\ UNCHANGED <<tables, library, ncalls, call, result>>

\* The dict a caller has read from self.genre_links (lines 56, 71), by its
\* place among the dicts made; 0 when it holds none.
CurrentDict == Len(genre_dicts)

\* The list a caller iterates at line 77.  Line 71 binds server_links to the
\* list object held in the dict the caller read: the caller sees what line 56
\* appends to that list, also after line 45 has made another dict.
server_links(c) ==
    IF local[c].dict > 0
    THEN genre_dicts[local[c].dict][call[c].genre]
    ELSE local[c].links

\* Lines 42-46: the status check, and the fresh display_names_set and
\* genre_links.
GcInit(c) ==
    /\ pc[c] = "gc_init"
    /\ IF local[c].status # 200
       THEN /\ Finish(c, Raise("Exception"))
            /\ UNCHANGED genre_dicts
       ELSE /\ genre_dicts' = Append(genre_dicts, EmptyDict)
            /\ local' = [local EXCEPT ![c].names = {}, ![c].i = 1]
            /\ Goto(c, "gc_loop")
            /\ UNCHANGED result
    /\ UNCHANGED <<display_genres, display_names, genre_names_from_links,
                   albums_in_genre, album_details, artist_details,
                   library, upstream, ncalls, call>>

\* Lines 50-55: the display genre of an upstream genre name.
DisplayGenre(server_genre_name) ==
    IF server_genre_name \in DOMAIN GENRE_LOOKUP
    THEN GENRE_LOOKUP[server_genre_name].displayed_name
    ELSE UNCATEGORISED

\* Lines 47-56: the next upstream genre and its display genre, up to the
\* read of self.genre_links in line 56.
GcLoop(c) ==
    /\ pc[c] = "gc_loop"
    /\ local[c].i <= Len(local[c].body)
    /\ local' = [local EXCEPT ![c].dict = CurrentDict]
    /\ Goto(c, "gc_subscr")
    /\ UNCHANGED <<tables, library, upstream, ncalls, call, result>>

\* Line 56, [display_genre]: the defaultdict the caller read makes an empty
\* list for a display genre it does not have.
GcLoopList(c) ==
    /\ pc[c] = "gc_subscr"
    /\ LET display_genre == DisplayGenre(local[c].body[local[c].i].name)
           links == genre_dicts[local[c].dict]
       IN genre_dicts' =
              IF HasKey(links, display_genre) THEN genre_dicts
              ELSE [genre_dicts EXCEPT ![local[c].dict] = Put(links, display_genre, <<>>)]
    /\ Goto(c, "gc_append")
    /\ UNCHANGED <<display_genres, display_names, genre_names_from_links,
                   albums_in_genre, album_details, artist_details,
                   library, upstream, ncalls, call, local, result>>

\* Line 56, .append(server_link): the link goes onto the list the subscript
\* gave.
GcLoopAppend(c) ==
    /\ pc[c] = "gc_append"
    /\ LET server_genre == local[c].body[local[c].i]
           display_genre == DisplayGenre(server_genre.name)
           links == genre_dicts[local[c].dict]
       IN genre_dicts' = [genre_dicts EXCEPT ![local[c].dict] =
              Put(links, display_genre, Append(links[display_genre], server_genre.link))]
    /\ local' = [local EXCEPT ![c].dict = 0]
    /\ Goto(c, "gc_name")
    /\ UNCHANGED <<display_genres, display_names, genre_names_from_links,
                   albums_in_genre, album_details, artist_details,
                   library, upstream, ncalls, call, result>>

\* Lines 57-59: the display genre filed under the link, and added to
\* display_names_set.
GcLoopName(c) ==
    /\ pc[c] = "gc_name"
    /\ LET server_genre == local[c].body[local[c].i]
           display_genre == DisplayGenre(server_genre.name)
       IN /\ genre_names_from_links' =
                 Put(genre_names_from_links, server_genre.link, display_genre)
          /\ local' = [local EXCEPT ![c].names = @ \cup {display_genre},
                                    ![c].i = @ + 1]
    /\ Goto(c, "gc_loop")
    /\ UNCHANGED <<display_genres, display_names, genre_dicts, albums_in_genre,
                   album_details, artist_details, library, upstream, ncalls,
                   call, result>>

\* Line 60: the display names, sorted.
GcFinish(c) ==
    /\ pc[c] = "gc_loop"
    /\ local[c].i > Len(local[c].body)
    /\ display_names' = Some(SortedDisplayNames(local[c].names))
    /\ local' = [local EXCEPT ![c].status = 0, ![c].body = <<>>,
                              ![c].i = 0, ![c].names = {}]
    /\ Goto(c, "gc_views")
    /\ UNCHANGED <<display_genres, genre_dicts, genre_names_from_links,
                   albums_in_genre, album_details, artist_details, library,
                   upstream, ncalls, call, result>>

\* Line 61: the views of self.display_names.
GcViews(c) ==
    /\ pc[c] = "gc_views"
    /\ LET names == Get(display_names)
       IN display_genres' = Some([i \in 1..Len(names) |-> GENRE_VIEWS[names[i]]])
    /\ Goto(c, AfterGenreCache(c))
    /\ UNCHANGED <<display_names, genre_dicts, genre_names_from_links,
                   albums_in_genre, album_details, artist_details, library,
                   upstream, ncalls, call, local, result>>

\* Line 163: root() hands display_genres to the template.
RootReturn(c) ==
    /\ pc[c] = "root_return"
    /\ Finish(c, Return(Get(display_genres)))
    /\ UNCHANGED <<tables, library, upstream, ncalls, call>>

(***************************************************************************)
(* ensure_genre_contents_cache                                             *)
(***************************************************************************)
\* self.genre_links[genre_name]: the defaultdict makes an empty list.
ServerLinksByIndex(links, genre_name) ==
    Some(IF HasKey(links, genre_name) THEN links[genre_name] ELSE <<>>)
\* Line 71: self.genre_links.get(genre_name).
ServerLinks(links, genre_name) == DictGet(links, genre_name)

\* Line 70: the test of the genre-contents table.
GccCheck(c) ==
    /\ pc[c] = "gcc_check"
    /\ Goto(c, IF DictGet(albums_in_genre, call[c].genre) # None
               THEN "gcc_return" ELSE "gcc_links")
    /\ UNCHANGED <<tables, library, upstream, ncalls, call, local, result>>

\* Line 71, self.genre_links: the dict of the cache is read.
GccLinks(c) ==
    /\ pc[c] = "gcc_links"
    /\ local' = [local EXCEPT ![c].dict = CurrentDict]
    /\ Goto(c, "gcc_get")
    /\ UNCHANGED <<tables, library, upstream, ncalls, call, result>>

\* Lines 71-74, .get(genre_name): the list of the genre's links in the dict
\* read (None for a genre that dict does not have), and the empty dict of
\* albums.
GccLinksGet(c) ==
    /\ pc[c] = "gcc_get"
    /\ LET genre_name == call[c].genre
           links == ServerLinks(genre_dicts[local[c].dict], genre_name)
       IN IF links = None
          THEN /\ local' = [local EXCEPT ![c].dict = 0]
               /\ Goto(c, "gcc_none")
          ELSE /\ local' = [local EXCEPT
                              ![c].links = <<>>,
                              ![c].dict = IF HasKey(genre_dicts[local[c].dict], genre_name)
                                          THEN @ ELSE 0,
                              ![c].albums = <<>>,
                              ![c].i = 1]
               /\ Goto(c, "gcc_loop")
    /\ UNCHANGED <<tables, library, upstream, ncalls, call, result>>

\* Lines 72-73 and 168-169: None returned, and get_genre ends with
\* abort(404).
GccNone(c) ==
    /\ pc[c] = "gcc_none"
    /\ Finish(c, ReturnNone)
    /\ UNCHANGED <<tables, library, upstream, ncalls, call>>

\* Lines 77-78: GET <link>?albums=all for the next link of the list.
GccRequest(c) ==
    /\ pc[c] = "gcc_loop"
    /\ local[c].i <= Len(server_links(c))
    /\ LET link == server_links(c)[local[c].i]
           exists == HasKey(server.genre_albums, link)
       IN \E status \in Statuses(exists) :
            /\ local' = [local EXCEPT ![c].status = status,
                            ![c].body = IF status = 200
                                        THEN server.genre_albums[link] ELSE <<>>,
                            ![c].sent = @ + 1]
            /\ requests' = [requests EXCEPT !.genre = Inc(@, link)]
            /\ served' = [served EXCEPT !.genre = IF status = 200 THEN Inc(@, link) ELSE @]
            /\ failures' = Failed(exists, status)
    /\ Goto(c, "gcc_process")
    /\ UNCHANGED <<tables, library, ncalls, call, result>>

\* Lines 79-82: abort(500) on a non-200 answer; otherwise on to the albums of
\* the answer, or to the next link when it has none.
GccProcess(c) ==
    /\ pc[c] = "gcc_process"
    /\ IF local[c].status # 200
       THEN Finish(c, Abort(500))
       ELSE /\ IF local[c].body = <<>>
               THEN /\ local' = [local EXCEPT ![c].i = @ + 1, ![c].status = 0]
                    /\ Goto(c, "gcc_loop")
               ELSE /\ local' = [local EXCEPT ![c].j = 1]
                    /\ Goto(c, "gcc_album")
            /\ UNCHANGED result
    /\ UNCHANGED <<tables, library, upstream, ncalls, call>>

\* Lines 82-84: the next album of the answer goes through
\* add_album_from_json and into the local dict; after the last one, on to
\* the next link.
GccAlbum(c) ==
    /\ pc[c] = "gcc_album"
    /\ LET r == AddAlbums(<<local[c].body[local[c].j]>>, genre_names_from_links,
                          album_details, <<>>)
       IN /\ album_details' = r.details
          /\ IF r.exc # ""
             THEN Finish(c, Raise(r.exc))
             ELSE /\ IF local[c].j < Len(local[c].body)
                     THEN /\ local' = [local EXCEPT
                                         ![c].albums = DedupById(r.albums, @),
                                         ![c].j = @ + 1]
                          /\ UNCHANGED pc
                     ELSE /\ local' = [local EXCEPT
                                         ![c].albums = DedupById(r.albums, @),
                                         ![c].i = @ + 1,
                                         ![c].j = 0,
                                         ![c].status = 0,
                                         ![c].body = <<>>]
                          /\ Goto(c, "gcc_loop")
                  /\ UNCHANGED result
    /\ UNCHANGED <<display_genres, display_names, genre_dicts,
                   genre_names_from_links, albums_in_genre, artist_details,
                   library, upstream, ncalls, call>>

\* Line 77: the loop ends when the list has no further link; links keeps
\* the list as the loop left it.
GccLoopEnd(c) ==
    /\ pc[c] = "gcc_loop"
    /\ local[c].i > Len(server_links(c))
    /\ local' = [local EXCEPT ![c].links = server_links(c),
                              ![c].dict = 0, ![c].i = 0]
    /\ Goto(c, "gcc_store")
    /\ UNCHANGED <<tables, library, upstream, ncalls, call, result>>

\* Lines 86-97: the albums sorted and stored under the genre.
GccStore(c) ==
    /\ pc[c] = "gcc_store"
    /\ albums_in_genre' = Put(albums_in_genre, call[c].genre,
                              SortGenreAlbums(local[c].albums))
    /\ local' = [local EXCEPT ![c].albums = <<>>, ![c].links = <<>>]
    /\ Goto(c, "gcc_return")
    /\ UNCHANGED <<display_genres, display_names, genre_dicts,
                   genre_names_from_links, album_details, artist_details,
                   library, upstream, ncalls, call, result>>

\* Line 98: self.albums_in_genre[genre_name], read from the table, is
\* returned; the defaultdict makes an empty list for a genre it lacks.
GccReturn(c) ==
    /\ pc[c] = "gcc_return"
    /\ LET genre_name == call[c].genre
           albums == IF HasKey(albums_in_genre, genre_name)
                     THEN albums_in_genre[genre_name] ELSE <<>>
       IN /\ albums_in_genre' = Put(albums_in_genre, genre_name, albums)
          /\ Finish(c, Return(albums))
    /\ UNCHANGED <<display_genres, display_names, genre_dicts,
                   genre_names_from_links, album_details, artist_details,
                   library, upstream, ncalls, call>>

\* ensure_album_cache going to the request whatever the table holds.
AlbCheckAlwaysFetch(c) ==
    /\ pc[c] = "alb_check"
    /\ Goto(c, "alb_request")
    /\ UNCHANGED <<tables, library, upstream, ncalls, call, local, result>>

(***************************************************************************)
(* ensure_album_cache                                                      *)
(***************************************************************************)
\* Line 102: the test of the album table.
AlbCheck(c) ==
    /\ pc[c] = "alb_check"
    /\ Goto(c, IF DictGet(album_details, call[c].album) # None
               THEN "alb_return" ELSE "alb_request")
    /\ UNCHANGED <<tables, library, upstream, ncalls, call, local, result>>

\* Line 103: GET /albums/<album_id>?tracks=all.
AlbRequest(c) ==
    /\ pc[c] = "alb_request"
    /\ LET id == call[c].album
           exists == HasKey(server.albums, id)
       IN \E status \in Statuses(exists) :
            /\ local' = [local EXCEPT ![c].status = status,
                            ![c].body = IF status = 200 THEN <<server.albums[id]>> ELSE <<>>,
                            ![c].sent = @ + 1]
            /\ requests' = [requests EXCEPT !.album = Inc(@, id)]
            /\ served' = [served EXCEPT !.album = IF status = 200 THEN Inc(@, id) ELSE @]
            /\ failures' = Failed(exists, status)
    /\ Goto(c, "alb_process")
    /\ UNCHANGED <<tables, library, ncalls, call, result>>

\* Lines 104-106: abort(500) on a non-200 answer; otherwise the album of the
\* answer is added to the table.
AlbProcess(c) ==
    /\ pc[c] = "alb_process"
    /\ IF local[c].status # 200
       THEN /\ Finish(c, Abort(500))
            /\ UNCHANGED album_details
       ELSE LET r == AddAlbums(local[c].body, genre_names_from_links,
                               album_details, <<>>)
            IN /\ album_details' = r.details
               /\ IF r.exc # ""
                  THEN Finish(c, Raise(r.exc))
                  ELSE /\ local' = [local EXCEPT ![c].status = 0, ![c].body = <<>>]
                       /\ Goto(c, "alb_return")
                       /\ UNCHANGED result
    /\ UNCHANGED <<display_genres, display_names, genre_dicts,
                   genre_names_from_links, albums_in_genre, artist_details,
                   library, upstream, ncalls, call>>

\* Line 107: self.album_details[album_id], read from the table, is returned
\* (KeyError when the table has no such id).
AlbReturn(c) ==
    /\ pc[c] = "alb_return"
    /\ Finish(c, IF HasKey(album_details, call[c].album)
                 THEN Return(album_details[call[c].album])
                 ELSE Raise("KeyError"))
    /\ UNCHANGED <<tables, library, upstream, ncalls, call>>

(***************************************************************************)
(* ensure_artist_cache                                                     *)
(***************************************************************************)
\* The lookup under the name as given.
ArtistLookupAsGiven(artist) == artist
\* Line 111: the key an artist is looked up under.
ArtistLookup(artist) == Lower(artist)

\* Lines 111-112: the test of the artist table under the lower-cased name.
ArtCheck(c) ==
    /\ pc[c] = "art_check"
    /\ Goto(c, IF DictGet(artist_details, ArtistLookup(call[c].artist)) # None
               THEN "art_return" ELSE "art_request")
    /\ UNCHANGED <<tables, library, upstream, ncalls, call, local, result>>

\* Line 113: GET /artists/<artist>?tracks=all, with the name as given.
ArtRequest(c) ==
    /\ pc[c] = "art_request"
    /\ LET artist == call[c].artist
           exists == HasKey(server.artists, artist)
       IN \E status \in Statuses(exists) :
            /\ local' = [local EXCEPT ![c].status = status,
                            ![c].body = IF status = 200 THEN server.artists[artist] ELSE <<>>,
                            ![c].sent = @ + 1]
            /\ requests' = [requests EXCEPT !.artist = Inc(@, artist)]
            /\ served' = [served EXCEPT !.artist = IF status = 200 THEN Inc(@, artist) ELSE @]
            /\ failures' = Failed(exists, status)
    /\ Goto(c, "art_process")
    /\ UNCHANGED <<tables, library, ncalls, call, result>>

\* The album_json of every group of an answer to the artist request, in the
\* order the loops of lines 152-153 visit them.
ArtistAlbumsJson(artist_json) ==
    Flatten([i \in 1..Len(artist_json) |-> artist_json[i].albums])

\* Lines 114-116, 151: abort(404) on a non-200 answer; otherwise
\* add_artist_from_json starts with an empty list of albums.
ArtProcess(c) ==
    /\ pc[c] = "art_process"
    /\ IF local[c].status # 200
       THEN Finish(c, Abort(404))
       ELSE /\ local' = [local EXCEPT ![c].albums = <<>>, ![c].j = 1]
            /\ Goto(c, IF ArtistAlbumsJson(local[c].body) = <<>>
                       THEN "art_store" ELSE "art_album")
            /\ UNCHANGED result
    /\ UNCHANGED <<tables, library, upstream, ncalls, call>>

\* Lines 152-154: the next album of the answer goes through
\* add_album_from_json and onto the list.
ArtAlbum(c) ==
    /\ pc[c] = "art_album"
    /\ LET albums_json == ArtistAlbumsJson(local[c].body)
           r == AddAlbums(<<albums_json[local[c].j]>>, genre_names_from_links,
                          album_details, <<>>)
       IN /\ album_details' = r.details
          /\ IF r.exc # ""
             THEN Finish(c, Raise(r.exc))
             ELSE /\ local' = [local EXCEPT ![c].albums = @ \o r.albums,
                                            ![c].j = @ + 1]
                  /\ Goto(c, IF local[c].j < Len(albums_json)
                             THEN "art_album" ELSE "art_store")
                  /\ UNCHANGED result
    /\ UNCHANGED <<display_genres, display_names, genre_dicts,
                   genre_names_from_links, albums_in_genre, artist_details,
                   library, upstream, ncalls, call>>

\* Lines 155-157 on the groups of an answer and the albums added for them:
\* the artist table afterwards and the exception raised, "" when none.  With
\* no group at all artist_name is unbound at line 156.
add_artist_from_json(artist_json, albums, artists) ==
    IF artist_json = <<>>
    THEN [artists |-> artists, exc |-> "UnboundLocalError"]
    ELSE LET artist_name == artist_json[Len(artist_json)].name
         IN [artists |-> Put(artists, Lower(artist_name),
                             [name |-> artist_name,
                              albums |-> SortArtistAlbums(albums)]),
             exc |-> ""]

\* Lines 155-157: the albums sorted and the Artist stored under the
\* lower-cased name of the last group.
ArtStore(c) ==
    /\ pc[c] = "art_store"
    /\ LET r == add_artist_from_json(local[c].body, local[c].albums, artist_details)
       IN /\ artist_details' = r.artists
          /\ IF r.exc # ""
             THEN Finish(c, Raise(r.exc))
             ELSE /\ local' = [local EXCEPT ![c].albums = <<>>, ![c].j = 0,
                                            ![c].status = 0, ![c].body = <<>>]
                  /\ Goto(c, "art_return")
                  /\ UNCHANGED result
    /\ UNCHANGED <<display_genres, display_names, genre_dicts,
                   genre_names_from_links, albums_in_genre, album_details,
                   library, upstream, ncalls, call>>

\* Line 117: self.artist_details[artist_lookup], read from the table, is
\* returned (KeyError when the table has no such name).
ArtReturn(c) ==
    /\ pc[c] = "art_return"
    /\ LET artist_lookup == ArtistLookup(call[c].artist)
       IN Finish(c, IF HasKey(artist_details, artist_lookup)
                    THEN Return(artist_details[artist_lookup])
                    ELSE Raise("KeyError"))
    /\ UNCHANGED <<tables, library, upstream, ncalls, call>>

(***************************************************************************)
(* Specifications                                                          *)
(***************************************************************************)
\* One step of caller c.
Step(c) ==
    \/ CallRoot(c) \/ CallGenre(c) \/ CallAlbum(c) \/ CallArtist(c)
    \/ GcCheck(c) \/ GcRequest(c) \/ GcInit(c)
    \/ GcLoop(c) \/ GcLoopList(c) \/ GcLoopAppend(c) \/ GcLoopName(c)
    \/ GcFinish(c) \/ GcViews(c)
    \/ RootReturn(c)
    \/ GccCheck(c) \/ GccLinks(c) \/ GccLinksGet(c) \/ GccNone(c)
    \/ GccRequest(c) \/ GccProcess(c) \/ GccAlbum(c) \/ GccLoopEnd(c)
    \/ GccStore(c) \/ GccReturn(c)
    \/ AlbCheck(c) \/ AlbRequest(c) \/ AlbProcess(c) \/ AlbReturn(c)
    \/ ArtCheck(c) \/ ArtRequest(c) \/ ArtProcess(c) \/ ArtAlbum(c)
    \/ ArtStore(c) \/ ArtReturn(c)

\* No caller other than c is inside an operation: the request of c does not
\* overlap another one.
Alone(c) == \A d \in Callers \ {c} : pc[d] \in {"idle", "done"}

\* Request handlers running concurrently, interleaved at the statements of
\* the cache.
Next == \E c \in Callers : Step(c)
Spec == Init /\ [][Next]_vars

\* The runs of Next in which the requests do not overlap: the client sends
\* a request only after the one before was answered, so a caller takes a
\* step only while no other caller is inside an operation.  Every behaviour
\* of NextSeq is a behaviour of Next on the same library; what holds here is
\* known for calls in sequence only.
NextSeq == \E c \in Callers : Alone(c) /\ Step(c)
SpecSeq == InitSeq /\ [][NextSeq]_vars
\* The same, against the library of artists' albums.
SpecArtists == InitArtists /\ [][NextSeq]_vars

(***************************************************************************)
(* Properties                                                              *)
(***************************************************************************)
Active(c) == pc[c] \notin {"idle", "done"}
Ids(albums) == [i \in 1..Len(albums) |-> albums[i].id]
Occurrences(seq, x) == Cardinality({i \in 1..Len(seq) : seq[i] = x})

\* The upstream requests a first, populating call issues for its own key: one,
\* and for the contents of a genre one per upstream link of the genre.
FetchesFor(what) ==
    IF what.op = "genre"
    THEN IF genre_links # None /\ HasKey(Get(genre_links), what.genre)
         THEN Len(Get(genre_links)[what.genre]) ELSE 0
    ELSE 1

\* C1: once a call of an ensure operation has succeeded, a later sequential
\* call of the same operation with the same key changes no cache table, sends
\* nothing upstream and returns what the first call returned; the two calls
\* together sent at most the one fetch of the key (one per link for the
\* contents of a genre).
C1_SecondCallIsIdempotent ==
    [][\A a, b \in Callers :
          (/\ a # b
           /\ pc[a] = "done"
           /\ result[a].kind = "return"
           /\ Active(b)
           /\ call[b] = call[a])
          => /\ UNCHANGED tables
             /\ UNCHANGED upstream
             /\ pc'[b] = "done" =>
                   /\ result'[b].kind = "return"
                   /\ result'[b].value = result[a].value
                   /\ result'[b].sent = 0
                   /\ result[a].sent \in {0, FetchesFor(call[a])}]_vars
\* Both calls of get_genre for the same genre are over: the first fetched both
\* links of the genre, the second nothing.
C1_Witness ==
    \E a, b \in Callers :
        /\ a # b
        /\ pc[a] = "done" /\ pc[b] = "done"
        /\ call[a] = call[b]
        /\ call[a].op = "genre"
        /\ result[a].kind = "return" /\ result[b].kind = "return"
        /\ result[a].value # None
        /\ result[a].value = result[b].value
        /\ result[a].sent = 2
        /\ result[b].sent = 0

\* C2: callers that run the same ensure operation for the same key at the
\* same time do not both send the upstream request for that key.
C2_AtMostOneFetchPerKey ==
    \A a, b \in Callers :
        (a # b /\ Active(a) /\ Active(b) /\ call[a] = call[b])
        => ~(local[a].sent >= 1 /\ local[b].sent >= 1)

\* The album ids upstream lists under the links of display genre g in
\* genre_links.
ListedIds(g) ==
    LET links == IF genre_links # None /\ HasKey(Get(genre_links), g)
                 THEN Get(genre_links)[g] ELSE <<>>
    IN UNION {{id_from_link(server.genre_albums[links[i]][j].link) :
                   j \in 1..Len(server.genre_albums[links[i]])} :
              i \in 1..Len(links)}

\* C3: no list of the genre-contents table holds an album id twice; and when
\* no caller is inside an operation, the list of a genre holds every album
\* that upstream lists under one of the genre's links exactly once, also when
\* two of the links list the same album.
C3_GenreListHasEachAlbumOnce ==
    \A g \in DOMAIN albums_in_genre :
        /\ \A i, j \in 1..Len(albums_in_genre[g]) :
              albums_in_genre[g][i].id = albums_in_genre[g][j].id => i = j
        /\ (\A c \in Callers : ~Active(c))
           => \A id \in ListedIds(g) :
                 Occurrences(Ids(albums_in_genre[g]), id) = 1

\* C4: when upstream answers the album-detail request with a status other
\* than 200, ensure_album_cache reports "not found" (the request ends 404,
\* not in a server error) and the album-by-id table stays as it was.
C4_AlbumNon200IsNotFound ==
    [][\A c \in Callers :
          (pc[c] = "alb_process" /\ local[c].status # 200 /\ pc'[c] = "done")
          => /\ HandlerStatus(result'[c]) = 404
             /\ UNCHANGED album_details]_vars

\* The genre index is not built, or has no such display genre.
UnknownGenre(g) == display_genres = None \/ ~HasKey(Get(genre_links), g)

\* C5: a call of ensure_genre_contents_cache for a name that is no display
\* genre of the index changes none of the genre-contents, album and artist
\* tables, sends no genre-contents request and, with the index built, returns
\* None; a non-200 answer for a link of a known genre ends in abort(500),
\* another outcome.
C5_UnknownGenreIsNotFound ==
    [][\A c \in Callers :
          /\ (call[c].op = "genre" /\ Active(c) /\ UnknownGenre(call[c].genre))
             => /\ UNCHANGED <<albums_in_genre, album_details, artist_details>>
                /\ requests'.genre = requests.genre
                /\ (pc'[c] = "done" /\ display_genres' # None)
                   => /\ result'[c] = ReturnNone
                      /\ HandlerStatus(result'[c]) = 404
          /\ (pc[c] = "gcc_process" /\ local[c].status # 200)
             => /\ result'[c] = [Abort(500) EXCEPT !.sent = local[c].sent]
                /\ result'[c].kind # ReturnNone.kind
                /\ HandlerStatus(result'[c]) = 500]_vars
\* get_genre("NoSuchGenre") has ended on a built index.
C5_Witness ==
    \E c \in Callers :
        /\ pc[c] = "done"
        /\ call[c].op = "genre"
        /\ call[c].genre = "NoSuchGenre"
        /\ display_genres # None
        /\ ~HasKey(Get(genre_links), "NoSuchGenre")
        /\ result[c] = ReturnNone

\* The key of a call is in the table of its operation.
KeyPopulated(what) ==
    CASE what.op = "genres" -> display_genres # None
      [] what.op = "genre" -> HasKey(albums_in_genre, what.genre)
      [] what.op = "album" -> HasKey(album_details, what.album)
      [] what.op = "artist" -> HasKey(artist_details, Lower(what.artist))
      [] OTHER -> FALSE

\* C6: an operation that ends on a non-200 answer leaves the key it was
\* called with unpopulated, and the genre-contents, album and artist tables
\* as they were when it was entered: nothing of the failed population is
\* cached.
C6_FailedPopulationCachesNothing ==
    [][\A c \in Callers :
          (/\ pc[c] \in {"gc_init", "gcc_process", "alb_process", "art_process"}
           /\ local[c].status # 200
           /\ pc'[c] = "done")
          => /\ <<albums_in_genre', album_details', artist_details'>> = local[c].before
             /\ (pc[c] = "gc_init" => display_genres' = None /\ genre_links' = genre_links)
             /\ (KeyPopulated(call[c])' <=> KeyPopulated(call[c]))]_vars

\* C7: once ensure_artist_cache has returned an artist for one spelling of a
\* name, a later call with a spelling that differs only in letter case sends
\* nothing upstream, changes no table and returns the same Artist.
C7_ArtistKeyIgnoresCase ==
    [][\A a, b \in Callers :
          (/\ a # b
           /\ pc[a] = "done"
           /\ call[a].op = "artist"
           /\ result[a].kind = "return"
           /\ Active(b)
           /\ call[b].op = "artist"
           /\ call[b].artist # call[a].artist
           /\ Lower(call[b].artist) = Lower(call[a].artist))
          => /\ UNCHANGED tables
             /\ UNCHANGED upstream
             /\ pc'[b] = "done" =>
                   /\ result'[b].kind = "return"
                   /\ result'[b].value = result[a].value
                   /\ result'[b].sent = 0]_vars
\* get_artist("Prince") fetched the artist, and get_artist("PRINCE") after it
\* returned the same entry without a request.
C7_Witness ==
    \E a, b \in Callers :
        /\ pc[a] = "done" /\ pc[b] = "done"
        /\ call[a].op = "artist" /\ call[a].artist = Prince
        /\ call[b].op = "artist" /\ call[b].artist = PRINCE
        /\ result[a].kind = "return" /\ result[a].sent = 1
        /\ result[b].kind = "return" /\ result[b].sent = 0
        /\ result[b].value = result[a].value
        /\ Count(requests.artist, PRINCE) = 0

\* Every Album held by a cache table.
CachedAlbums ==
    {album_details[id] : id \in DOMAIN album_details}
    \cup UNION {{albums_in_genre[g][i] : i \in 1..Len(albums_in_genre[g])} :
                g \in DOMAIN albums_in_genre}
    \cup UNION {{artist_details[n].albums[i] : i \in 1..Len(artist_details[n].albums)} :
                n \in DOMAIN artist_details}

\* The anchor as the claim derives it: the upper-cased transliteration of the
\* first character when that is one plain letter, "num" otherwise and for a
\* missing or empty artist.
AnchorByClaim(artist) ==
    IF ~TruthyStr(artist) THEN ANCHOR_NUM
    ELSE LET t == Unidecode(Upper(<<Get(artist)[1]>>))
         IN IF Len(t) = 1 /\ t[1] \in 65..90 THEN t ELSE ANCHOR_NUM

\* C8: the anchor of every cached Album is one of the 26 single letters A-Z
\* or "num": the upper-cased transliteration of the artist's first character
\* when that is one plain letter, and "num" when the artist is missing or
\* empty or the first character gives no single plain letter.
C8_AnchorIsLetterOrNum ==
    \A album \in CachedAlbums :
        /\ \/ album.anchor = ANCHOR_NUM
           \/ Len(album.anchor) = 1 /\ album.anchor[1] \in 65..90
        /\ album.anchor = AnchorByClaim(album.artist)

\* The order of the claim on the albums of a genre: by artist (quotes
\* stripped, transliterated, lower-cased, "Unknown Artist" for a missing one),
\* then year (0 for a missing one), then title (transliterated, lower-cased),
\* a missing title after every real one.
ClaimedArtistKey(album) ==
    Lower(Unidecode(RemoveChar(
        IF TruthyStr(album.artist) THEN Get(album.artist) ELSE UNKNOWN_ARTIST, 34)))
ClaimedYearKey(album) == IF album.year = None THEN 0 ELSE Get(album.year)
ClaimedTitleBefore(a, b) ==
    /\ TruthyStr(a.title)
    /\ \/ ~TruthyStr(b.title)
       \/ StrLess(Lower(Unidecode(Get(a.title))), Lower(Unidecode(Get(b.title))))
ClaimedAlbumBefore(a, b) ==
    \/ StrLess(ClaimedArtistKey(a), ClaimedArtistKey(b))
    \/ /\ ClaimedArtistKey(a) = ClaimedArtistKey(b)
       /\ ClaimedYearKey(a) < ClaimedYearKey(b)
    \/ /\ ClaimedArtistKey(a) = ClaimedArtistKey(b)
       /\ ClaimedYearKey(a) = ClaimedYearKey(b)
       /\ ClaimedTitleBefore(a, b)

FirstIndex(seq, x) == CHOOSE i \in 1..Len(seq) : seq[i] = x /\ \A j \in 1..(i - 1) : seq[j] # x
\* The album ids of a display genre in the order upstream lists them, link
\* after link.
UpstreamAlbumOrder(g) ==
    LET links == Get(genre_links)[g]
        listed == Flatten([i \in 1..Len(links) |-> server.genre_albums[links[i]]])
    IN [i \in 1..Len(listed) |-> id_from_link(listed[i].link)]

\* C9: every cached genre list is in the order of the claim, a missing title
\* after every real title, and albums with equal keys are in their upstream
\* order.
C9_GenreListOrder ==
    \A g \in DOMAIN albums_in_genre :
        \A i, j \in 1..Len(albums_in_genre[g]) :
            i < j =>
                LET a == albums_in_genre[g][i]
                    b == albums_in_genre[g][j]
                IN /\ ~ClaimedAlbumBefore(b, a)
                   /\ ~ClaimedAlbumBefore(a, b) =>
                          FirstIndex(UpstreamAlbumOrder(g), a.id)
                              < FirstIndex(UpstreamAlbumOrder(g), b.id)

\* The order of the claim on tracks: by disk, a missing disk number after
\* every known one, then by track number, a missing one first.
ClaimedTrackBefore(a, b) ==
    \/ /\ a.disknumber # None
       /\ b.disknumber = None \/ Get(a.disknumber) < Get(b.disknumber)
    \/ /\ a.disknumber = b.disknumber
       /\ b.tracknumber # None
       /\ a.tracknumber = None \/ Get(a.tracknumber) < Get(b.tracknumber)
\* The track ids of an album in the order upstream lists them.
UpstreamTrackOrder(album_id) ==
    LET k == CHOOSE k \in DOMAIN server.albums :
                 id_from_link(server.albums[k].link) = album_id
        tracks == server.albums[k].tracks
    IN [i \in 1..Len(tracks) |-> id_from_link(tracks[i].link)]

\* C10: the tracks of every cached Album are in the order of the claim, a
\* missing disk number after every known one and a missing track number first
\* on its disk, and tracks with equal keys are in their upstream order.
C10_TrackOrder ==
    \A album \in CachedAlbums :
        \A i, j \in 1..Len(album.tracks) :
            i < j =>
                LET a == album.tracks[i]
                    b == album.tracks[j]
                IN /\ ~ClaimedTrackBefore(b, a)
                   /\ ~ClaimedTrackBefore(a, b) =>
                          FirstIndex(UpstreamTrackOrder(album.id), a.id)
                              < FirstIndex(UpstreamTrackOrder(album.id), b.id)

\* The upstream links that one pass over the genres files under display genre
\* dn, in upstream order.
RECURSIVE LinksOfDisplayGenre(_, _)
LinksOfDisplayGenre(genres, dn) ==
    IF genres = <<>> THEN <<>>
    ELSE (IF DisplayGenre(Head(genres).name) = dn THEN <<Head(genres).link>> ELSE <<>>)
         \o LinksOfDisplayGenre(Tail(genres), dn)
\* The display genres of the upstream genres.
ObservedDisplayGenres ==
    {DisplayGenre(server.genres[i].name) : i \in 1..Len(server.genres)}

\* C11: when no caller is inside an operation and the genre index is built,
\* the index is the one a single call builds, however the calls that built it
\* were interleaved: each display genre maps to its upstream links once each,
\* in upstream order, and the display names are the sorted observed ones.
C11_RaceLeavesSequentialTables ==
    (display_genres # None /\ \A c \in Callers : ~Active(c))
    => /\ DOMAIN Get(genre_links) = ObservedDisplayGenres
       /\ \A dn \in DOMAIN Get(genre_links) :
             Get(genre_links)[dn] = LinksOfDisplayGenre(server.genres, dn)
       /\ display_names = Some(SortedDisplayNames(ObservedDisplayGenres))

\* Every key of table d is a key of e with the same value.
Kept(d, e) == \A k \in DOMAIN d : k \in DOMAIN e /\ e[k] = d[k]

\* C12: in every step of the cache, a built genre index (display genres,
\* display names, forward and reverse map) is not changed again, and a key of
\* the genre-contents, album or artist table stays in its table with the
\* value it has.
C12_EntriesAreNeverReplaced ==
    [][/\ display_genres # None
          => UNCHANGED <<display_genres, display_names, genre_links,
                         genre_names_from_links>>
       /\ Kept(albums_in_genre, albums_in_genre')
       /\ Kept(album_details, album_details')
       /\ Kept(artist_details, artist_details')]_vars

\* C13: a request for the contents of a genre, for an album or for an artist
\* is sent only with the genre index built from an answered GET /genres; and
\* a caller whose GET /genres was not answered with 200 ends there with the
\* exception, having sent nothing for its key and changing no table.
C13_IndexBeforeAnyOtherRequest ==
    [][/\ (\/ requests'.genre # requests.genre
           \/ requests'.album # requests.album
           \/ requests'.artist # requests.artist)
          => (display_genres # None /\ served.genres >= 1)
       /\ \A c \in Callers :
             (pc[c] = "gc_init" /\ local[c].status # 200 /\ pc'[c] # pc[c])
             => /\ pc'[c] = "done"
                /\ result'[c].kind = "raise"
                /\ call[c].op # "genres" => result'[c].sent = 0
                /\ UNCHANGED tables
                /\ UNCHANGED upstream]_vars
\* One call ended on a failed GET /genres; a later call built the index and
\* then fetched album 1.
C13_Witness ==
    /\ \E c \in Callers : pc[c] = "done" /\ result[c].exc = "Exception"
    /\ requests.genres >= 2
    /\ display_genres # None
    /\ Count(served.album, "1") >= 1

\* C14: when the answer to the artist request is 200, ensure_artist_cache
\* leaves an entry under the lower-cased name it was called with and returns
\* that entry, whatever groups the answer holds; and the request it sent was
\* for the name as given.
C14_ArtistStoredUnderLoweredInput ==
    [][\A c \in Callers :
          /\ (pc[c] = "art_request" /\ pc'[c] = "art_process")
             => requests'.artist = Inc(requests.artist, call[c].artist)
          /\ (/\ pc[c] \in {"art_album", "art_store", "art_return"}
              /\ local[c].sent = 1
              /\ pc'[c] = "done")
             => /\ HasKey(artist_details', Lower(call[c].artist))
                /\ result'[c].kind = "return"
                /\ result'[c].value = Some(artist_details'[Lower(call[c].artist)])]_vars

\* The albums held in the lists of the genre-contents and artist tables.
ListedAlbums ==
    UNION {{albums_in_genre[g][i] : i \in 1..Len(albums_in_genre[g])} :
           g \in DOMAIN albums_in_genre}
    \cup UNION {{artist_details[n].albums[i] : i \in 1..Len(artist_details[n].albums)} :
                n \in DOMAIN artist_details}

\* C15: every album in a list of the genre-contents table or of a cached
\* artist is in the album table under its id, as an equal record.
C15_ListedAlbumsAreTheCachedRecords ==
    \A album \in ListedAlbums :
        HasKey(album_details, album.id) /\ album_details[album.id] = album
\* An album is in the list of its genre and in the list of its artist.
C15_Witness ==
    /\ HasKey(albums_in_genre, "Pop and Rock")
    /\ HasKey(artist_details, prince)
    /\ \E i \in 1..Len(albums_in_genre["Pop and Rock"]) :
          \E j \in 1..Len(artist_details[prince].albums) :
             artist_details[prince].albums[j] = albums_in_genre["Pop and Rock"][i]

\* The album list a successful get_genre or get_artist returned.
ReturnedAlbums(c) ==
    IF pc[c] = "done" /\ result[c].kind = "return" /\ result[c].value # None
    THEN IF call[c].op = "genre" THEN Get(result[c].value)
         ELSE IF call[c].op = "artist" THEN Get(result[c].value).albums
         ELSE <<>>
    ELSE <<>>

\* C16: once get_genre or get_artist has returned its album list, a later
\* ensure_album_cache for the id of an album of that list sends no request,
\* changes no table and returns the album of the list.
C16_ListedAlbumIsServedFromCache ==
    [][\A a, b \in Callers :
          \A i \in 1..Len(ReturnedAlbums(a)) :
             (/\ a # b
              /\ Active(b)
              /\ call[b].op = "album"
              /\ call[b].album = ReturnedAlbums(a)[i].id)
             => /\ UNCHANGED upstream
                /\ UNCHANGED tables
                /\ pc'[b] = "done"
                   => /\ result'[b].kind = "return"
                      /\ result'[b].sent = 0
                      /\ result'[b].value = Some(ReturnedAlbums(a)[i])]_vars
\* get_artist returned a list with album 21, and a later get_album for 21 has
\* returned.
C16_Witness ==
    \E a, b \in Callers :
        /\ a # b
        /\ call[a].op = "artist"
        /\ \E i \in 1..Len(ReturnedAlbums(a)) : ReturnedAlbums(a)[i].id = "21"
        /\ call[b].op = "album" /\ call[b].album = "21"
        /\ pc[b] = "done" /\ result[b].kind = "return"
        /\ result[b].sent = 0
        /\ Count(requests.album, "21") = 0

\* The order of the claim on the albums of an artist: by year, an album with
\* a year before every album without one.
ClaimedYearBefore(a, b) ==
    a.year # None /\ (b.year = None \/ Get(a.year) < Get(b.year))
\* The ids of the albums of an answer to the artist request, group after
\* group.
UpstreamArtistOrder(artist_json) ==
    LET listed == Flatten([i \in 1..Len(artist_json) |-> artist_json[i].albums])
    IN [i \in 1..Len(listed) |-> id_from_link(listed[i].link)]

\* C17: the album list of a cached artist holds the albums of every group of
\* the answer, by ascending year with the albums without a year last, and
\* albums of the same year (or both without) in the order of the answer.
C17_ArtistAlbumOrder ==
    \A q \in DOMAIN server.artists :
        LET artist_json == server.artists[q]
            stored == Lower(artist_json[Len(artist_json)].name)
            upstream_ids == UpstreamArtistOrder(artist_json)
        IN (artist_json # <<>> /\ HasKey(artist_details, stored))
           => LET albums == artist_details[stored].albums
              IN /\ Len(albums) = Len(upstream_ids)
                 /\ \A i \in 1..Len(upstream_ids) :
                       Occurrences(Ids(albums), upstream_ids[i]) = 1
                 /\ \A i, j \in 1..Len(albums) :
                       i < j =>
                          /\ ~ClaimedYearBefore(albums[j], albums[i])
                          /\ ~ClaimedYearBefore(albums[i], albums[j])
                             => FirstIndex(upstream_ids, albums[i].id)
                                   < FirstIndex(upstream_ids, albums[j].id)


\* The elements of a sequence.
Elements(s) == {s[i] : i \in 1..Len(s)}

\* C18: once ensure_genre_cache has succeeded (display_genres is set), every
\* upstream link has a display genre in the reverse map, the one GENRE_LOOKUP
\* gives its name or UNCATEGORISED for a name the table does not know, and is
\* in the forward list of that display genre and of no other; the display
\* names are the display genres of the reverse map, each once, in strictly
\* rising rank of GENRE_SORT_ORDER, and display_genres holds their views in
\* the same order.
C18_GenreIndexIsConsistent ==
    display_genres # None
    => LET forward == Get(genre_links)
           names == Get(display_names)
           views == Get(display_genres)
       IN /\ \A i \in 1..Len(server.genres) :
                LET server_genre == server.genres[i]
                IN /\ HasKey(genre_names_from_links, server_genre.link)
                   /\ genre_names_from_links[server_genre.link] =
                         IF server_genre.name \in DOMAIN GENRE_LOOKUP
                         THEN GENRE_LOOKUP[server_genre.name].displayed_name
                         ELSE UNCATEGORISED
          /\ \A link \in DOMAIN genre_names_from_links :
                \A dn \in DOMAIN forward \cup {genre_names_from_links[link]} :
                    (HasKey(forward, dn) /\ link \in Elements(forward[dn]))
                        <=> dn = genre_names_from_links[link]
          /\ \A dn \in DOMAIN forward :
                \A link \in Elements(forward[dn]) :
                    HasKey(genre_names_from_links, link)
          /\ Elements(names) =
                {genre_names_from_links[link] : link \in DOMAIN genre_names_from_links}
          /\ \A i, j \in 1..Len(names) :
                i < j => GENRE_SORT_ORDER[names[i]] < GENRE_SORT_ORDER[names[j]]
          /\ Len(views) = Len(names)
          /\ \A i \in 1..Len(names) : views[i] = GENRE_VIEWS[names[i]]


\* C19: every entry of the album table is stored under the id of its own
\* album, and every ensure_album_cache whose request was answered 200 returns
\* an album whose id is the id asked for.
C19_AlbumKeyIsItsId ==
    [][/\ \A k \in DOMAIN album_details' : album_details'[k].id = k
       /\ \A c \in Callers :
             (/\ \/ pc[c] = "alb_process" /\ local[c].status = 200
                 \/ pc[c] = "alb_return" /\ local[c].sent = 1
              /\ pc'[c] = "done")
             => /\ result'[c].kind = "return"
                /\ result'[c].value # None
                /\ Get(result'[c].value).id = call[c].album]_vars

====
